---- MODULE Spec2Model ----
(***************************************************************************)
(* Pagination resolvers of prisma2-nexus-pagination-example.               *)
(*                                                                         *)
(* src/index.js defines two GraphQL query fields, postsOffset and          *)
(* postsCursor; the tutorial (src/unnamed/part_001) defines a third, posts.*)
(* Each resolver validates its arguments synchronously, issues ONE         *)
(* photon.posts.findMany call, awaits it, and returns the list of posts.   *)
(* A rejected findMany is caught, logged, and the initial empty list is    *)
(* returned.  The record store is the Post table, ordered by id.           *)
(***************************************************************************)
EXTENDS Integers, Sequences, FiniteSets, TLC

\* ---------------------------------------------------------------- bounds
MaxId == 5            \* post ids are 1..MaxId
MaxOffset == 4        \* largest offset a client sends
MaxLimit == 5         \* largest limit / first / last a client sends
NClients == 2         \* request slots (client 1 is the only one used by Spec)
MaxWrites == 1        \* posts created or deleted by other users during a run
MaxPages == 5         \* follow-up requests a paging client sends in a traversal

\* ------------------------------------------------------------- constants
Undefined == -1       \* a JavaScript argument that was not supplied
DefaultFirst == 10    \* posts: findMany({ first: 10 }) when no first/last
MAX_PAGE_SIZE == 4    \* upper limit of the spec's PageQuery.limit

Ids == 1..MaxId
Clients == 1..NClients
\* the client whose requests Spec follows
Main == CHOOSE c \in Clients : \A d \in Clients : c <= d

OffsetErr == "Please provide an offset and limit."
CursorErr == "Please provide an cursor and limit."

VARIABLES store, req, prev, writes

vars == <<store, req, prev, writes>>

\* ------------------------------------------------------- JavaScript bits
\* !v is true for undefined and for 0
Falsy(v) == v = Undefined \/ v = 0

Truthy(v) == ~Falsy(v)

Range(s) == {s[i] : i \in 1..Len(s)}

Last(s) == s[Len(s)]

Min2(a, b) == IF a < b THEN a ELSE b

\* the records of set S in ascending id order
RECURSIVE Ascending(_)
Ascending(S) ==
    IF S = {} THEN <<>>
    ELSE LET m == CHOOSE x \in S : \A y \in S : x <= y
         IN <<m>> \o Ascending(S \ {m})

Take(s, n) == SubSeq(s, 1, Min2(n, Len(s)))

Drop(s, n) == SubSeq(s, Min2(n, Len(s)) + 1, Len(s))

TakeLast(s, n) == SubSeq(s, Len(s) - Min2(n, Len(s)) + 1, Len(s))

DropLast(s, n) == SubSeq(s, 1, Len(s) - Min2(n, Len(s)))

\* ------------------------------------------------------------ findMany
\* the argument object of a findMany call; absent keys are Undefined
NoQuery == [skip |-> Undefined, after |-> Undefined, before |-> Undefined,
            first |-> Undefined, last |-> Undefined]

\* variant: the cursor record itself is part of the range
InRangeInclusive(S, q) ==
    {x \in S : /\ (q.after = Undefined \/ x >= q.after)
               /\ (q.before = Undefined \/ x <= q.before)}

\* records strictly after `after` and strictly before `before`
InRange(S, q) ==
    {x \in S : /\ (q.after = Undefined \/ x > q.after)
               /\ (q.before = Undefined \/ x < q.before)}

\* photon.posts.findMany(q) on table S: id order; after/before are exclusive
\* cursors; first takes from the front after skip, last from the back.
FindMany(S, q) ==
    LET rows == Ascending(InRange(S, q))
        n == IF q.skip = Undefined THEN 0 ELSE q.skip
    IN IF q.first # Undefined THEN Take(Drop(rows, n), q.first)
       ELSE IF q.last # Undefined THEN TakeLast(DropLast(rows, n), q.last)
       ELSE Drop(rows, n)

\* ------------------------------------------------------------ resolvers
NoArgs == [offset |-> Undefined, cursor |-> Undefined, limit |-> Undefined,
           first |-> Undefined, last |-> Undefined]

\* variant: only a missing offset is rejected, offset 0 is accepted
PostsOffsetThrowsStrict(a) == a.offset = Undefined \/ Falsy(a.limit)

\* index.js:47  if (!offset || !limit) throw ...
PostsOffsetThrows(a) == Falsy(a.offset) \/ Falsy(a.limit)

\* variant: one record more than the limit is requested
PostsOffsetQueryOverfetch(a) ==
    [NoQuery EXCEPT !.skip = a.offset, !.first = a.limit + 1]

\* variant: one row less than the offset is skipped
PostsOffsetQuerySkipLess(a) ==
    [NoQuery EXCEPT !.skip = a.offset - 1, !.first = a.limit]

\* index.js:52  findMany({ skip: offset, first: limit })
PostsOffsetQuery(a) == [NoQuery EXCEPT !.skip = a.offset, !.first = a.limit]

\* index.js:63  if (!cursor || !limit) throw ...
PostsCursorThrows(a) == Falsy(a.cursor) \/ Falsy(a.limit)

\* variant: the cursor is passed as `before`
PostsCursorQueryBefore(a) ==
    [NoQuery EXCEPT !.before = a.cursor, !.first = a.limit]

\* variant: the offset of the request is passed on as well
PostsCursorQueryWithSkip(a) ==
    [NoQuery EXCEPT !.after = a.cursor, !.skip = a.offset, !.first = a.limit]

\* variant: the cursor is not passed on to findMany
PostsCursorQueryNoAfter(a) == [NoQuery EXCEPT !.first = a.limit]

\* variant: one row after the cursor is skipped
PostsCursorQuerySkipOne(a) ==
    [NoQuery EXCEPT !.after = a.cursor, !.skip = 1, !.first = a.limit]

\* index.js:67  findMany({ after: cursor, first: limit })
PostsCursorQuery(a) == [NoQuery EXCEPT !.after = a.cursor, !.first = a.limit]

\* variant: the last branch passes the cursor as `after`
PostsQueryLastAfter(a) ==
    IF Truthy(a.first) THEN [NoQuery EXCEPT !.after = a.cursor, !.first = a.first]
    ELSE IF Truthy(a.last) THEN [NoQuery EXCEPT !.after = a.cursor, !.last = a.last]
    ELSE [NoQuery EXCEPT !.first = DefaultFirst]

\* part_001:175-180  first / last / default branch of posts
PostsQuery(a) ==
    IF Truthy(a.first) THEN [NoQuery EXCEPT !.after = a.cursor, !.first = a.first]
    ELSE IF Truthy(a.last) THEN [NoQuery EXCEPT !.before = a.cursor, !.last = a.last]
    ELSE [NoQuery EXCEPT !.first = DefaultFirst]

Throws(field, a) ==
    CASE field = "postsOffset" -> PostsOffsetThrows(a)
      [] field = "postsCursor" -> PostsCursorThrows(a)
      [] OTHER -> FALSE

ErrorOf(field) == IF field = "postsOffset" THEN OffsetErr ELSE CursorErr

QueryOf(field, a) ==
    CASE field = "postsOffset" -> PostsOffsetQuery(a)
      [] field = "postsCursor" -> PostsCursorQuery(a)
      [] OTHER -> PostsQuery(a)

\* a request slot with no resolver running.  page, seen, start and base are
\* the notes of a client paging through postsCursor: how many requests of its
\* traversal came before this one, the records they returned, the cursor of
\* the first request and the table as the first request read it
Idle == [pc |-> "idle", field |-> "none", args |-> NoArgs, query |-> NoQuery,
         posts |-> <<>>, error |-> "", reads |-> 0, failed |-> FALSE,
         snapshot |-> {},
         page |-> 0, seen |-> <<>>, start |-> Undefined, base |-> {}]

\* variant: findMany is called first and the arguments are checked afterwards
InvokeReadFirst(field, a) ==
    IF Throws(field, a)
    THEN [Idle EXCEPT !.pc = "thrown", !.field = field, !.args = a,
                      !.error = ErrorOf(field),
                      !.query = QueryOf(field, a), !.reads = 1]
    ELSE [Idle EXCEPT !.pc = "awaiting", !.field = field, !.args = a,
                      !.query = QueryOf(field, a), !.reads = 1]

\* the synchronous prefix of a resolver: the guard, `let posts = []`, and the
\* findMany call whose promise is then awaited
Invoke(field, a) ==
    IF Throws(field, a)
    THEN [Idle EXCEPT !.pc = "thrown", !.field = field, !.args = a,
                      !.error = ErrorOf(field)]
    ELSE [Idle EXCEPT !.pc = "awaiting", !.field = field, !.args = a,
                      !.query = QueryOf(field, a), !.reads = 1]

\* ------------------------------------------------------------- inputs
Offsets == {Undefined} \cup (0..MaxOffset)
Limits == {Undefined} \cup (0..MaxLimit)
Cursors == {Undefined} \cup Ids
\* value of the other mode's field when a request carries both
Extra == {Undefined, 1}

\* values of `last` in a posts request that has a `first`: the resolver takes
\* the first branch and never reads `last`, so an absent, a zero and a
\* positive value stand for all
Unread == {Undefined, 0, 1}

RawRequests(field) ==
    CASE field = "postsOffset" ->
           {[NoArgs EXCEPT !.offset = o, !.limit = l, !.cursor = x] :
              o \in Offsets, l \in Limits, x \in Extra}
      [] field = "postsCursor" ->
           {[NoArgs EXCEPT !.cursor = k, !.limit = l, !.offset = x] :
              k \in Cursors, l \in Limits, x \in Extra}
      [] OTHER ->
           {a \in {[NoArgs EXCEPT !.cursor = k, !.first = f, !.last = l] :
                     k \in Cursors, f \in Limits, l \in Limits} :
               Truthy(a.first) => a.last \in Unread}

\* the query fields of index.js, and the tutorial's posts field
IndexFields == {"postsOffset", "postsCursor"}

Fields == IndexFields \cup {"posts"}

\* ------------------------------------------------------------- actions
Init ==
    /\ store \in SUBSET Ids
    /\ req = [c \in Clients |-> Idle]
    /\ prev = [c \in Clients |-> Idle]
    /\ writes = 0

\* a client sends a query; the resolver runs up to its await (or throws)
Call(c) ==
    /\ req[c].pc = "idle"
    /\ \E field \in Fields : \E a \in RawRequests(field) :
          req' = [req EXCEPT ![c] = Invoke(field, a)]
    /\ UNCHANGED <<store, prev, writes>>

\* variant: `posts` is one variable shared by all running resolvers, so the
\* rows of this read also replace what the other requests hold
StoreReadShared(c) ==
    /\ req[c].pc = "awaiting"
    /\ LET rows == FindMany(store, req[c].query)
       IN req' = [d \in Clients |->
                    IF d = c
                    THEN [req[c] EXCEPT !.pc = "returned", !.posts = rows,
                                        !.snapshot = store]
                    ELSE IF req[d].pc = "returned"
                         THEN [req[d] EXCEPT !.posts = rows]
                         ELSE req[d]]
    /\ UNCHANGED <<store, prev, writes>>

\* variant: the rows that are read are also removed from the table
StoreReadConsuming(c) ==
    /\ req[c].pc = "awaiting"
    /\ req' = [req EXCEPT ![c].pc = "returned",
                          ![c].posts = FindMany(store, req[c].query),
                          ![c].snapshot = store]
    /\ store' = store \ Range(FindMany(store, req[c].query))
    /\ UNCHANGED <<prev, writes>>

\* findMany resolves: posts = <rows>; return posts
StoreRead(c) ==
    /\ req[c].pc = "awaiting"
    /\ req' = [req EXCEPT ![c].pc = "returned",
                          ![c].posts = FindMany(store, req[c].query),
                          ![c].snapshot = store]
    /\ UNCHANGED <<store, prev, writes>>

\* findMany rejects: catch (error) { console.log(error) }; return posts ([])
StoreFail(c) ==
    /\ req[c].pc = "awaiting"
    /\ req' = [req EXCEPT ![c].pc = "returned", ![c].failed = TRUE]
    /\ UNCHANGED <<store, prev, writes>>

\* the response has been delivered; the slot is free again
Reset(c) ==
    /\ req[c].pc \in {"returned", "thrown"}
    /\ req' = [req EXCEPT ![c] = Idle]
    /\ prev' = [prev EXCEPT ![c] = Idle]
    /\ UNCHANGED <<store, writes>>

\* another user creates a post (photon.posts.create)
Insert ==
    /\ writes < MaxWrites
    /\ \E x \in Ids \ store : store' = store \cup {x}
    /\ writes' = writes + 1
    /\ UNCHANGED <<req, prev>>

\* another user deletes a post
Delete ==
    /\ writes < MaxWrites
    /\ \E x \in store : store' = store \ {x}
    /\ writes' = writes + 1
    /\ UNCHANGED <<req, prev>>

\* variant: the client sends the arguments of its previous request again
FollowUpRepeat(r) == r.args

\* the arguments of the request a paging client sends after request r:
\* offset clients add the limit to the offset; cursor clients send the id of
\* the last record they received (the first one when paging backward)
FollowUp(r) ==
    CASE r.field = "postsOffset" ->
           [r.args EXCEPT !.offset = r.args.offset + r.args.limit]
      [] r.field = "postsCursor" ->
           [r.args EXCEPT !.cursor = Last(r.posts)]
      [] OTHER ->
           [r.args EXCEPT !.cursor = IF r.query.last # Undefined
                                     THEN Head(r.posts) ELSE Last(r.posts)]

CanFollowUp(r) ==
    IF r.field = "postsOffset"
    THEN /\ r.pc \in {"returned", "thrown"}
         /\ r.args.offset # Undefined /\ r.args.limit # Undefined
         /\ r.args.offset + r.args.limit <= MaxOffset
    ELSE r.pc = "returned" /\ r.posts # <<>>

\* the client asks for the page that follows the one it just received
NextPage(c) ==
    /\ CanFollowUp(req[c])
    /\ req[c].page < MaxPages
    /\ prev' = [prev EXCEPT ![c] = req[c]]
    /\ req' = [req EXCEPT ![c] =
                  IF req[c].field = "postsCursor"
                  THEN [Invoke(req[c].field, FollowUp(req[c])) EXCEPT
                           !.page = req[c].page + 1,
                           !.seen = req[c].seen \o req[c].posts,
                           !.start = IF req[c].page = 0 THEN req[c].args.cursor
                                     ELSE req[c].start,
                           !.base = IF req[c].page = 0 THEN req[c].snapshot
                                    ELSE req[c].base]
                  ELSE Invoke(req[c].field, FollowUp(req[c]))]
    /\ UNCHANGED <<store, writes>>

Next ==
    \/ Call(Main)
    \/ StoreRead(Main)
    \/ StoreFail(Main)
    \/ Reset(Main)
    \/ Insert
    \/ Delete

Spec == Init /\ [][Next]_vars

NextSession ==
    \/ Next
    \/ NextPage(Main)

\* a client paging through the posts, request after request
SpecSession == Init /\ [][NextSession]_vars

\* a client starts a postsCursor traversal
CallCursor(c) ==
    /\ req[c].pc = "idle"
    /\ \E a \in RawRequests("postsCursor") :
          /\ a.offset = Undefined
          /\ req' = [req EXCEPT ![c] = Invoke("postsCursor", a)]
    /\ UNCHANGED <<store, prev, writes>>

NextPaging ==
    \/ CallCursor(Main)
    \/ StoreRead(Main)
    \/ StoreFail(Main)
    \/ NextPage(Main)
    \/ Delete

\* a client that pages through postsCursor and never gives up, while posts
\* may be deleted but none is created: every awaited findMany settles, and
\* the client asks for the next page whenever it received a record
SpecPaging ==
    /\ Init /\ [][NextPaging]_vars
    /\ WF_vars(StoreRead(Main) \/ StoreFail(Main))
    /\ WF_vars(NextPage(Main))

\* a second client, whose requests overlap those of Main
Other == CHOOSE c \in Clients : c # Main

\* the requests the two concurrent clients send
ConcRequests(field) ==
    {a \in RawRequests(field) :
        /\ a.limit \in {1, 2}
        /\ IF field = "postsOffset"
           THEN a.offset \in 0..2 /\ a.cursor = Undefined
           ELSE a.cursor \in 1..2 /\ a.offset = Undefined}

\* Call, with the arguments drawn from ConcRequests
CallConcurrent(c) ==
    /\ req[c].pc = "idle"
    /\ \E field \in IndexFields : \E a \in ConcRequests(field) :
          req' = [req EXCEPT ![c] = Invoke(field, a)]
    /\ UNCHANGED <<store, prev, writes>>

NextConcurrent ==
    \/ \E c \in {Main, Other} :
          \/ CallConcurrent(c)
          \/ StoreRead(c)
          \/ StoreFail(c)
          \/ Reset(c)
    \/ Insert
    \/ Delete

\* two clients whose resolvers run interleaved, and a writer
SpecConcurrent == Init /\ [][NextConcurrent]_vars

TypeOK ==
    /\ store \subseteq Ids
    /\ writes \in 0..MaxWrites
    /\ \A c \in Clients : req[c].pc \in {"idle", "awaiting", "returned", "thrown"}

\* ------------------------------------------------------------ properties
Done(r) == r.pc \in {"returned", "thrown"}

\* the resolver returned the rows findMany gave it
Served(r) == r.pc = "returned" /\ ~r.failed

\* client c received a non-empty postsCursor page and then fetched the page
\* after its last record with the same limit
CursorFollowUp(c) ==
    /\ prev[c].field = "postsCursor" /\ Served(prev[c]) /\ prev[c].posts # <<>>
    /\ req[c].field = "postsCursor" /\ Served(req[c])
    /\ req[c].args.cursor = Last(prev[c].posts)
    /\ req[c].args.limit = prev[c].args.limit

\* exactly one post was created between the two reads of client c
InsertedBetween(c) ==
    \E x \in Ids \ prev[c].snapshot : req[c].snapshot = prev[c].snapshot \cup {x}

Overlap(c) == Range(prev[c].posts) \cap Range(req[c].posts)

\* C1: when one post is created between a postsCursor fetch and the fetch
\* after its last record (same limit), no record of the first page is in the
\* second page.
C1_NoRepeatAfterInsert ==
    \A c \in Clients :
        CursorFollowUp(c) /\ InsertedBetween(c) => Overlap(c) = {}

\* the new post sorts before the cursor and the second page is not empty
C1_Witness ==
    /\ CursorFollowUp(Main) /\ InsertedBetween(Main)
    /\ req[Main].posts # <<>>
    /\ \E x \in req[Main].snapshot \ prev[Main].snapshot : x < req[Main].args.cursor

\* C3: with the table unchanged between the two reads, the postsCursor page
\* fetched after the last record of the prior page (same limit) shares no
\* record with the prior page.
C3_NoOverlapWithoutMutation ==
    \A c \in Clients :
        CursorFollowUp(c) /\ req[c].snapshot = prev[c].snapshot => Overlap(c) = {}

\* two full consecutive pages read from the same table
C3_Witness ==
    /\ CursorFollowUp(Main) /\ req[Main].snapshot = prev[Main].snapshot
    /\ Len(prev[Main].posts) = 2 /\ Len(req[Main].posts) = 2

\* the limit the client asked for, when it gave one
HasLimit(r) ==
    \/ r.field \in {"postsOffset", "postsCursor"}
    \/ r.field = "posts" /\ (Truthy(r.args.first) \/ Truthy(r.args.last))

ReqLimit(r) ==
    IF r.field = "posts"
    THEN (IF Truthy(r.args.first) THEN r.args.first ELSE r.args.last)
    ELSE r.args.limit

\* the rows the store held on the scanned side of the request's anchor
Available(r) ==
    LET n == Cardinality(InRange(r.snapshot, r.query))
        k == IF r.query.skip = Undefined THEN 0 ELSE r.query.skip
    IN IF n > k THEN n - k ELSE 0

\* C4: a returned page has at most limit records, and it is the fetched rows
\* cut to the limit.
C4_AtMostLimit ==
    \A c \in Clients :
        req[c].pc = "returned" /\ HasLimit(req[c]) =>
            /\ Len(req[c].posts) <= ReqLimit(req[c])
            /\ ~req[c].failed =>
                  req[c].posts =
                     Take(FindMany(req[c].snapshot, req[c].query), ReqLimit(req[c]))

\* a full page while the table held more rows than the limit
C4_Witness ==
    /\ Served(req[Main]) /\ req[Main].field = "postsOffset"
    /\ Len(req[Main].posts) = req[Main].args.limit
    /\ Available(req[Main]) > req[Main].args.limit

\* what a client can read as hasNextPage from a response: the resolvers
\* return the bare list of posts (t.list.field, `return posts`), so the
\* flag is never there
HasNextPage(r) == "absent"

\* C2: postsOffset(offset 0, limit 4) returns the first four posts, and when
\* one post that sorts before the end of that page is created before
\* postsOffset(offset 4, limit 4) is read, the second page repeats the last
\* record of the first page.
C2_OffsetRepeatsAfterInsert ==
    \A c \in Clients :
        /\ ( /\ Done(req[c]) /\ req[c].field = "postsOffset"
             /\ req[c].args.offset = 0 /\ req[c].args.limit = 4
             /\ Cardinality(store) >= 4
             => Served(req[c]) \/ req[c].failed )
        /\ ( /\ prev[c].field = "postsOffset" /\ Served(prev[c])
             /\ prev[c].args.offset = 0 /\ prev[c].args.limit = 4
             /\ Len(prev[c].posts) = 4
             /\ req[c].field = "postsOffset" /\ Served(req[c])
             /\ req[c].args.offset = 4 /\ req[c].args.limit = 4
             /\ \E x \in Ids \ prev[c].snapshot :
                   /\ req[c].snapshot = prev[c].snapshot \cup {x}
                   /\ x < Last(prev[c].posts)
             => Last(prev[c].posts) \in Range(req[c].posts) )

\* the request names neither an offset nor a cursor, only a page size
LimitOnly(r) ==
    /\ r.args.offset = Undefined /\ r.args.cursor = Undefined
    /\ \/ r.args.limit # Undefined
       \/ r.args.first # Undefined
       \/ r.args.last # Undefined

\* C5: a request that supplies only a limit is rejected and never served as
\* a default page.
C5_LimitOnlyRejected ==
    \A c \in Clients :
        Done(req[c]) /\ LimitOnly(req[c]) => req[c].pc = "thrown"

\* C6: a request that supplies both an offset and a cursor is rejected and
\* no page is returned.
C6_BothModesRejected ==
    \A c \in Clients :
        /\ Done(req[c])
        /\ req[c].args.offset # Undefined /\ req[c].args.cursor # Undefined
        => req[c].pc = "thrown"

\* C7: limit 0 and limit MAX_PAGE_SIZE + 1 are rejected, and every accepted
\* request has its limit in 1..MAX_PAGE_SIZE.
C7_LimitInRange ==
    \A c \in Clients :
        Done(req[c]) /\ req[c].field \in IndexFields =>
            /\ ReqLimit(req[c]) \in {0, MAX_PAGE_SIZE + 1} => req[c].pc = "thrown"
            /\ req[c].pc = "returned" => ReqLimit(req[c]) \in 1..MAX_PAGE_SIZE

\* C8: no request ends with an exception thrown out of the resolver; errors
\* are returned as values.
C8_NeverThrows ==
    \A c \in Clients : req[c].pc # "thrown"

\* C9: when the findMany call fails, the outcome of the request is an error,
\* never a page.
C9_StoreFailureIsError ==
    \A c \in Clients :
        req[c].field \in IndexFields /\ req[c].failed => req[c].pc # "returned"

\* C10: hasNextPage of a returned page is true exactly when the table held
\* more than limit records on the forward side of the anchor at fetch time.
C10_HasNextPage ==
    \A c \in Clients :
        Served(req[c]) /\ req[c].field \in IndexFields =>
            (HasNextPage(req[c]) = "true" <=> Available(req[c]) > ReqLimit(req[c]))

\* a request the spec accepts: one mode named, a positive limit
ValidRequest(r) ==
    /\ Truthy(r.args.limit)
    /\ \/ /\ r.field = "postsOffset"
          /\ r.args.offset # Undefined /\ r.args.cursor = Undefined
       \/ /\ r.field = "postsCursor"
          /\ r.args.cursor # Undefined /\ r.args.offset = Undefined

\* C11: against a table with no posts every request yields the empty page:
\* no records, and no further page signalled (the response carries no
\* cursors at all).
C11_EmptyStorePage ==
    \A c \in Clients :
        Done(req[c]) /\ ValidRequest(req[c]) /\ store = {} /\ writes = 0 =>
            /\ req[c].pc = "returned"
            /\ req[c].posts = <<>>
            /\ HasNextPage(req[c]) # "true"

\* C12: under every interleaving of two clients and a writer, the outcome of
\* each request is determined by its own arguments and the table as it was at
\* its single read: it throws exactly when its own guard says so, and a
\* served page is findMany of its own query on its own snapshot.
C12_RequestsIndependent ==
    \A c \in Clients :
        /\ Done(req[c]) =>
              (req[c].pc = "thrown" <=> Throws(req[c].field, req[c].args))
        /\ Served(req[c]) =>
              req[c].posts =
                 FindMany(req[c].snapshot, QueryOf(req[c].field, req[c].args))
        /\ req[c].pc = "returned" /\ req[c].failed => req[c].posts = <<>>

\* both clients were served different pages from different tables
C12_Witness ==
    /\ Served(req[Main]) /\ Served(req[Other])
    /\ req[Main].snapshot # req[Other].snapshot
    /\ req[Main].posts # <<>> /\ req[Other].posts # <<>>
    /\ req[Main].posts # req[Other].posts

\* C14: a request rejected by the argument check has made no findMany call:
\* the error is raised before any access to the table.
C14_RejectedBeforeStoreAccess ==
    \A c \in Clients :
        req[c].pc = "thrown" =>
            /\ req[c].reads = 0
            /\ req[c].query = NoQuery
            /\ req[c].snapshot = {}

\* a postsCursor request without a limit was rejected while the table has posts
C14_Witness ==
    /\ req[Main].pc = "thrown" /\ req[Main].field = "postsCursor"
    /\ req[Main].args.cursor \in store /\ req[Main].args.limit = Undefined
    /\ req[Main].error = CursorErr

\* the records at positions skip+1 .. skip+limit of table S, in id order
Positions(S, skip, limit) ==
    SubSeq(Ascending(S), skip + 1, Min2(skip + limit, Cardinality(S)))

\* C15: a postsOffset request with skip >= 0 and a positive limit returns, in
\* ascending order, exactly the records at positions skip+1 .. skip+limit of
\* the table as it is at fetch time.
C15_OffsetPositions ==
    \A c \in Clients :
        /\ Done(req[c]) /\ req[c].field = "postsOffset" /\ ~req[c].failed
        /\ req[c].args.offset # Undefined /\ Truthy(req[c].args.limit)
        => /\ req[c].pc = "returned"
           /\ req[c].posts =
                 Positions(req[c].snapshot, req[c].args.offset, req[c].args.limit)

\* a forward fetch anchored at a cursor: postsCursor, or posts with first
ForwardCursor(r) ==
    \/ r.field = "postsCursor"
    \/ r.field = "posts" /\ Truthy(r.args.first) /\ r.args.cursor # Undefined

QueryCount(q) == IF q.first # Undefined THEN q.first ELSE q.last

\* C17: every findMany call made for a request with a limit asks for
\* limit + 1 records, never exactly limit.
C17_OverFetch ==
    \A c \in Clients :
        req[c].reads = 1 /\ HasLimit(req[c]) =>
            QueryCount(req[c].query) = ReqLimit(req[c]) + 1

\* a backward fetch anchored at a cursor: posts with last and no first
BackwardCursor(r) ==
    /\ r.field = "posts" /\ Falsy(r.args.first) /\ Truthy(r.args.last)
    /\ r.args.cursor # Undefined

IsAscending(s) == \A i \in 1..Len(s) : \A j \in 1..Len(s) : i < j => s[i] < s[j]

C19_DirectionResolution ==
    \A c \in Clients :
        Done(req[c]) /\ req[c].field = "posts" /\ req[c].args.cursor # Undefined =>
            /\ Truthy(req[c].args.first) /\ Truthy(req[c].args.last) =>
                  req[c].pc = "thrown"
            /\ Truthy(req[c].args.first) /\ Falsy(req[c].args.last) =>
                  /\ req[c].query.after = req[c].args.cursor
                  /\ req[c].query.before = Undefined
            /\ Falsy(req[c].args.first) /\ Truthy(req[c].args.last) =>
                  /\ req[c].query.before = req[c].args.cursor
                  /\ req[c].query.after = Undefined

HasSkip(q) == q.skip # Undefined

HasAnchor(q) == q.after # Undefined \/ q.before # Undefined

\* C20: no findMany call carries both a skip count and a cursor anchor; the
\* calls of postsOffset and postsCursor carry exactly one of the two.
C20_SkipOrAnchor ==
    \A c \in Clients :
        req[c].reads = 1 =>
            /\ ~(HasSkip(req[c].query) /\ HasAnchor(req[c].query))
            /\ req[c].field \in IndexFields =>
                  (HasSkip(req[c].query) \/ HasAnchor(req[c].query))

\* a postsCursor request that also names an offset queries by anchor only
C20_Witness ==
    /\ req[Main].reads = 1 /\ req[Main].field = "postsCursor"
    /\ req[Main].args.offset # Undefined
    /\ HasAnchor(req[Main].query) /\ ~HasSkip(req[Main].query)

\* what a client can read as startCursor / endCursor from a response: the
\* resolvers return the bare list of posts, so neither property is there
StartCursor(r) == Undefined

EndCursor(r) == Undefined

\* C21: startCursor and endCursor of a returned page are the cursors (ids) of
\* its first and last record, and both are absent exactly when it is empty.
C21_EdgeCursors ==
    \A c \in Clients :
        Served(req[c]) /\ req[c].field \in IndexFields =>
            IF req[c].posts = <<>>
            THEN StartCursor(req[c]) = Undefined /\ EndCursor(req[c]) = Undefined
            ELSE /\ StartCursor(req[c]) = Head(req[c].posts)
                 /\ EndCursor(req[c]) = Last(req[c].posts)

\* C22: no step of a pagination request (the call, the read, a failed read,
\* the delivery, the follow-up request) changes the table.
C22_RequestsLeaveStore == [][req' # req => store' = store]_vars

\* two pages were served one after the other and the table is as it was
C22_Witness ==
    /\ Served(prev[Main]) /\ prev[Main].posts # <<>>
    /\ Served(req[Main]) /\ req[Main].posts # <<>>
    /\ writes = 0
    /\ store = prev[Main].snapshot /\ store = req[Main].snapshot

\* the first record of table S in id order
FirstRecord(S) == Head(Ascending(S))

Received(r) == r.seen \o r.posts

\* the cursor the traversal started from
InitialCursor(r) == IF r.page = 0 THEN r.args.cursor ELSE r.start

\* C24: while no post is created or deleted, a client that keeps calling
\* postsCursor with the same limit and the id of the last record it received
\* has received, in ascending order and without gap or repeat, a prefix of
\* the records after its initial cursor, and all of them once a page comes
\* back shorter than the limit.
C24_CursorTraversalComplete ==
    \A c \in Clients :
        req[c].field = "postsCursor" /\ Served(req[c]) /\ writes = 0 =>
            LET after == Ascending({x \in store : x > InitialCursor(req[c])})
                all == Received(req[c])
            IN /\ Len(all) <= Len(after)
               /\ all = Take(after, Len(all))
               /\ Len(req[c].posts) < req[c].args.limit => all = after

\* pages of two, two and zero records covered the four posts after the
\* cursor, itself a post of the table
C24_Witness ==
    /\ req[Main].field = "postsCursor" /\ Served(req[Main]) /\ writes = 0
    /\ req[Main].page = 2 /\ req[Main].args.limit = 2
    /\ Len(req[Main].posts) = 0
    /\ Len(Received(req[Main])) = 4
    /\ InitialCursor(req[Main]) \in store

\* client c fetched postsOffset(s, n) and then postsOffset(s + n, n)
OffsetFollowUp(c) ==
    /\ prev[c].field = "postsOffset" /\ Served(prev[c])
    /\ req[c].field = "postsOffset" /\ Served(req[c])
    /\ req[c].args.limit = prev[c].args.limit
    /\ req[c].args.offset = prev[c].args.offset + prev[c].args.limit

\* the end of the first page: position s + n of the table
PageEnd(r) == r.args.offset + r.args.limit

\* exactly one post, at or before the end of the first page, was deleted
\* between the two reads of client c
DeletedBetween(c) ==
    \E x \in Range(Take(Ascending(prev[c].snapshot), PageEnd(prev[c]))) :
        req[c].snapshot = prev[c].snapshot \ {x}

\* the records that followed the first page when it was read
FollowedFirstPage(c) ==
    Range(Drop(Ascending(prev[c].snapshot), PageEnd(prev[c])))

\* C25: when one post at or before the end of the first page is deleted
\* between postsOffset(s, n) and postsOffset(s + n, n), the record that
\* followed the first page is in neither page.
C25_OffsetSkipsAfterDelete ==
    \A c \in Clients :
        OffsetFollowUp(c) /\ DeletedBetween(c) /\ FollowedFirstPage(c) # {} =>
            LET y == FirstRecord(FollowedFirstPage(c))
            IN /\ y \notin Range(prev[c].posts)
               /\ y \notin Range(req[c].posts)

\* the second page is not empty, yet the record after the first page is lost
C25_Witness ==
    /\ OffsetFollowUp(Main) /\ DeletedBetween(Main)
    /\ Len(prev[Main].posts) = 2 /\ req[Main].posts # <<>>
    /\ FollowedFirstPage(Main) # {}
    /\ FirstRecord(FollowedFirstPage(Main)) \in req[Main].snapshot

\* the number of requests the traversal has sent, this one included
Fetches(r) == r.page + 1

\* the records after the initial cursor when the traversal read the table
\* for the first time
AfterInitialCursor(r) ==
    {x \in (IF r.page = 0 THEN r.snapshot ELSE r.base) : x > InitialCursor(r)}

\* the request was answered with fewer records than its limit
ShortPage(r) == r.pc = "returned" /\ Len(r.posts) < r.args.limit

\* C26: with no post created, a client that keeps requesting the next
\* postsCursor page eventually receives a page shorter than the limit, after
\* at most (records after the initial cursor) + 1 fetches.
C26_TraversalTerminates ==
    /\ [](\A c \in Clients :
            req[c].field = "postsCursor" =>
               /\ Fetches(req[c]) <= Cardinality(AfterInitialCursor(req[c])) + 1
               /\ /\ req[c].pc = "returned"
                  /\ Fetches(req[c]) = Cardinality(AfterInitialCursor(req[c])) + 1
                  => ShortPage(req[c]))
    /\ (req[Main].field = "postsCursor" /\ req[Main].pc = "awaiting")
          ~> ShortPage(req[Main])

\* the fifth fetch of a limit-1 traversal over four posts came back empty
C26_Witness ==
    /\ req[Main].field = "postsCursor" /\ Served(req[Main])
    /\ req[Main].args.limit = 1 /\ req[Main].page = 4
    /\ Cardinality(AfterInitialCursor(req[Main])) = 4
    /\ req[Main].posts = <<>>
    /\ writes = 0
====
